---------------------------- MODULE Spec2Model ----------------------------
(***************************************************************************)
(* State-machine model of the rule-based backtester (src/backtester.py)    *)
(* and of the live agent's trade execution (src/trading_agent.py,          *)
(* src/trade_history.py, src/portfolio_manager.py, src/risk_manager.py).   *)
(*                                                                         *)
(* Numbers.  The program computes in floating point; the model computes    *)
(* in fixed point with integers:                                           *)
(*   - amounts of USDT are in 1/1000 USDT (milli-USDT);                    *)
(*   - prices are whole USDT per coin;                                     *)
(*   - backtester quantities of coin are in 1/1000000 coin (micro-coin);   *)
(*   - percentages are whole percents.                                     *)
(* A division rounds down.  A not-a-number indicator value is the          *)
(* sentinel NaN, and every comparison with it is false, as in IEEE 754.    *)
(***************************************************************************)
EXTENDS Integers, Sequences, FiniteSets, TLC

VARIABLES
    \* ---- Backtester and the run in progress (src/backtester.py) ----
    initial_balance,    \* Backtester.initial_balance
    position_size_pct,  \* Backtester.position_size_pct
    stop_loss_pct,      \* Backtester.stop_loss_pct
    take_profit_pct,    \* Backtester.take_profit_pct
    n,                  \* len(df), the number of candles of the series
    pc,                 \* position of run: "start", "loop", "done"
    i,                  \* the loop index of run
    balance,            \* local balance of run
    position,           \* local position of run (None or a position)
    trades,             \* result.trades
    equity_curve,       \* result.equity_curve
    final_balance,      \* result.final_balance
    last_close,         \* df["close"] of the candle processed last
    candle,             \* the candle (close and indicator values) processed last
    closes,             \* the close prices the series may hold
    undefined,          \* whether EMA20, EMA50 or MACD histogram may be undefined
    df,                 \* df["close"] when the indicators are computed from it
    \* ---- the live agent (src/trading_agent.py) and what it owns ----
    enable_trading,     \* config.ENABLE_TRADING
    history,            \* the rows of table trades (src/trade_history.py)
    balances,           \* PortfolioManager._balances: asset -> wallet balance
    orders,             \* the orders sent to the exchange by place_order
    apc,                \* position of TradingAgent.run: "idle" or "run"
    pending,            \* the pairs run has still to process (step 8)
    last,               \* the call of execute_trade made by the last step
    \* ---- BybitClient.get_klines (src/bybit_client.py) ----
    kpc,                \* position of get_klines: "idle", "loop", "done"
    current_start,      \* local current_start (start_time)
    end_time,           \* argument end_time, moved back page by page
    max_requests,       \* argument max_requests
    request_count,      \* local request_count
    all_klines,         \* local all_klines: the timestamps of its klines
    seen_timestamps     \* local seen_timestamps

bt_vars == <<initial_balance, position_size_pct, stop_loss_pct, take_profit_pct,
             n, pc, i, balance, position, trades, equity_curve, final_balance,
             last_close, candle, closes, undefined, df>>

agent_vars == <<enable_trading, history, balances, orders, apc, pending, last>>

kl_vars == <<kpc, current_start, end_time, max_requests, request_count,
             all_klines, seen_timestamps>>

vars == <<bt_vars, agent_vars, kl_vars>>

-----------------------------------------------------------------------------
(* Bounds of the model *)

\* candles after the warm-up window: the series has at most WARMUP + MaxTail candles
MaxTail == 4

-----------------------------------------------------------------------------
(* Program constants *)

\* range(200, len(df)) and the len(df) < 200 test
WARMUP == 200

\* FEE_PCT = 0.1 percent: fee = amount * 0.1 / 100 = amount / 1000
FEE_DIVISOR == 1000

\* RSI thresholds of the strategy
RSI_BUY == 35
RSI_SELL == 65

\* the 1 USDT kept on the balance and the minimal trade amount, in milli-USDT
RESERVE == 1000
MIN_TRADE == 1000

\* not-a-number
NaN == -1000000

isna(x) == x = NaN

\* comparisons of floats: false when an operand is not a number
\* a comparison that takes the sentinel for a number
GtRaw(a, b) == a > b

Lt(a, b) == ~isna(a) /\ ~isna(b) /\ a < b
Gt(a, b) == ~isna(a) /\ ~isna(b) /\ a > b

Min(a, b) == IF b < a THEN b ELSE a

-----------------------------------------------------------------------------
(* Inputs *)

\* close prices of the candles after the warm-up window
Prices == {95, 100, 103}

\* a close below zero, which run takes as any other (a close of zero makes
\* the quantity bought non-finite and is not among the inputs)
BadPrices == {-50}

\* values of the indicators at a candle
RsiValues == {NaN, 30, 50, 70}
Ema20Values == {99, 101}
Ema50Values == {100}
HistValues == {-1, 1}
AtrValues == {NaN, 1}

Candles == [close : Prices \cup BadPrices, rsi : RsiValues, ema20 : Ema20Values,
            ema50 : Ema50Values, hist : HistValues, atr : AtrValues]

\* candles of which EMA20, EMA50 or the MACD histogram is undefined
UndefinedCandles ==
    {c \in [close : Prices \cup BadPrices, rsi : RsiValues,
            ema20 : Ema20Values \cup {NaN}, ema50 : Ema50Values \cup {NaN},
            hist : HistValues \cup {NaN}, atr : AtrValues] :
        isna(c.ema20) \/ isna(c.ema50) \/ isna(c.hist)}

\* the candles a series with closes among cs may hold, those of
\* UndefinedCandles only when u
CandlesOf(cs, u) ==
    {c \in Candles \cup (IF u THEN UndefinedCandles ELSE {}) : c.close \in cs}

NoCandle == [close |-> 0, rsi |-> NaN, ema20 |-> NaN, ema50 |-> NaN,
             hist |-> NaN, atr |-> NaN]

InitialBalances == {0, 2000, 100000}
PositionSizePcts == {5, 50, 150}
StopLossPcts == {5}
TakeProfitPcts == {3, -6}

SeriesLengths == {0, WARMUP - 1} \cup (WARMUP .. WARMUP + MaxTail)

-----------------------------------------------------------------------------
(* Indicators (src/indicators.py) of a series of closes, at its j-th candle *)
(* (j = 1 for df.iloc[0]).  The candles of such a series have high = low =   *)
(* close.  Averages are in 1/1000 USDT, the RSI in whole percents.           *)

\* periods: calculate_rsi and calculate_atr (14), calculate_macd (12, 26, 9),
\* and the spans run asks calculate_ema for
RSI_PERIOD == 14
ATR_PERIOD == 14
MACD_FAST == 12
MACD_SLOW == 26
MACD_SIGNAL == 9
EMA_SHORT == 20
EMA_LONG == 50

\* a series that rises by 20 over candles 171..190, stays, falls by 8 over
\* candles 201..208 and stays
PullbackSeries(p, len) ==
    [k \in 1..len |->
        IF k <= 170 THEN p
        ELSE IF k <= 190 THEN p + (k - 170)
        ELSE IF k <= 200 THEN p + 20
        ELSE IF k <= 208 THEN p + 20 - (k - 200)
        ELSE p + 12]

\* the series of len candles at price p
FlatSeries(p, len) == [k \in 1..len |-> p]

\* ewm(span=span, adjust=False).mean(): y = y + 2 / (span + 1) * (x - y)
EwmStep(prev, x, span) == prev + (2 * (x - prev)) \div (span + 1)

\* ewm(alpha=1/14).mean() of gains and of losses: the weighted sum
\* (13/14)^k * x, which stays positive once it is; the sum of the weights is
\* the same for gains and losses and cancels in avg_gain / avg_loss
WilderStep(prev, x) == (prev * (RSI_PERIOD - 1) + (RSI_PERIOD - 1)) \div RSI_PERIOD + x

\* the moving averages at the first candle of series
FirstState(series) ==
    [ema_fast |-> series[1] * 1000, ema_slow |-> series[1] * 1000,
     ema_short |-> series[1] * 1000, ema_long |-> series[1] * 1000,
     signal |-> 0, gain |-> 0, loss |-> 0]

\* the moving averages at candle k > 1, from those (s) at candle k - 1
NextState(series, s, k) ==
    LET x == series[k] * 1000
        delta == (series[k] - series[k - 1]) * 1000
        ema_fast == EwmStep(s.ema_fast, x, MACD_FAST)
        ema_slow == EwmStep(s.ema_slow, x, MACD_SLOW)
    IN  [ema_fast |-> ema_fast,
         ema_slow |-> ema_slow,
         ema_short |-> EwmStep(s.ema_short, x, EMA_SHORT),
         ema_long |-> EwmStep(s.ema_long, x, EMA_LONG),
         signal |-> EwmStep(s.signal, ema_fast - ema_slow, MACD_SIGNAL),
         gain |-> WilderStep(s.gain, IF delta > 0 THEN delta ELSE 0),
         loss |-> WilderStep(s.loss, IF delta < 0 THEN 0 - delta ELSE 0)]

\* the moving averages at candle to, from those (s) at candle from - 1; the
\* candles from..to are taken in order, half by half, and the test of the
\* first half (a sum of gains is never negative) has it computed before the
\* second half is entered
RECURSIVE StateOver(_, _, _, _)
StateOver(series, s, from, to) ==
    IF from > to THEN s
    ELSE IF from = to THEN NextState(series, s, from)
    ELSE LET mid == (from + to) \div 2
             half == StateOver(series, s, from, mid)
         IN  IF half.gain >= 0
             THEN StateOver(series, half, mid + 1, to)
             ELSE half

\* the moving averages after the first j candles of series
IndicatorState(series, j) == StateOver(series, FirstState(series), 2, j)

\* calculate_rsi: undefined before min_periods and where avg_loss is 0
\* (replace(0, nan)), else 100 - 100 / (1 + avg_gain / avg_loss)
calculate_rsi(s, j) ==
    IF j < RSI_PERIOD \/ s.loss = 0 THEN NaN
    ELSE (100 * s.gain) \div (s.gain + s.loss)

\* true range of candle k: high - low = 0 and |close - previous close|
TrueRange(series, k) ==
    IF k = 1 THEN 0
    ELSE IF series[k] >= series[k - 1]
         THEN (series[k] - series[k - 1]) * 1000
         ELSE (series[k - 1] - series[k]) * 1000

RECURSIVE SumTrueRange(_, _, _)
SumTrueRange(series, from, to) ==
    IF from > to THEN 0
    ELSE TrueRange(series, from) + SumTrueRange(series, from + 1, to)

\* calculate_atr: true_range.rolling(window=14).mean()
calculate_atr(series, j) ==
    IF j < ATR_PERIOD THEN NaN
    ELSE SumTrueRange(series, j - ATR_PERIOD + 1, j) \div ATR_PERIOD

\* the values run reads at the j-th candle of series (lines 183-189)
CandleAt(series, j) ==
    LET s == IndicatorState(series, j)
    IN  [close |-> series[j],
         rsi |-> calculate_rsi(s, j),
         ema20 |-> s.ema_short,
         ema50 |-> s.ema_long,
         hist |-> (s.ema_fast - s.ema_slow) - s.signal,
         atr |-> calculate_atr(series, j)]

-----------------------------------------------------------------------------
(* Backtester *)

None == [open |-> FALSE, qty |-> 0, entry_price |-> 0, entry_amount |-> 0,
         entry_idx |-> 0]

\* position["qty"] * price, in milli-USDT
Value(qty, price) == (qty * price) \div 1000

\* a fee of zero percent
FeeFree(x) == 0 * x

\* x * self.FEE_PCT / 100
Fee(x) == x \div FEE_DIVISOR

\* Backtester._close_position: the P&L of the position sold at sell_price
close_position(pos, sell_price) ==
    LET sell_value == Value(pos.qty, sell_price)
        fee == Fee(sell_value)
    IN  sell_value - fee - pos.entry_amount

\* what a close inside the loop adds to the balance
LoopCredit(pos, price) == Value(pos.qty, price) - Fee(Value(pos.qty, price))

\* what the close after the loop adds to the balance
FinalCredit(pos, final_price) == Value(pos.qty, final_price)

\* loss_pct <= -self.stop_loss_pct, loss_pct = (price - entry) / entry * 100
\* (the division by a negative entry price turns the comparison)
StopLossHit(pos, price, sl) ==
    IF pos.entry_price > 0
    THEN (price - pos.entry_price) * 100 <= (0 - sl) * pos.entry_price
    ELSE (price - pos.entry_price) * 100 >= (0 - sl) * pos.entry_price

\* loss_pct >= self.take_profit_pct
TakeProfitHit(pos, price, tp) ==
    IF pos.entry_price > 0
    THEN (price - pos.entry_price) * 100 >= tp * pos.entry_price
    ELSE (price - pos.entry_price) * 100 <= tp * pos.entry_price

\* the overbought exit with the threshold of the entry
RsiSellSignalLow(c) == Gt(c.rsi, RSI_BUY)

\* current_rsi > 65
RsiSellSignal(c) == Gt(c.rsi, RSI_SELL)

\* the entry test without the MACD histogram
BuySignalNoHist(c) == Lt(c.rsi, RSI_BUY) /\ Gt(c.ema20, c.ema50)

\* current_rsi < 35 and current_ema20 > current_ema50 and current_macd_hist > 0
BuySignal(c) == Lt(c.rsi, RSI_BUY) /\ Gt(c.ema20, c.ema50) /\ Gt(c.hist, 0)

\* pd.isna(current_rsi) or pd.isna(current_atr)
Skipped(c) == isna(c.rsi) \/ isna(c.atr)

\* trade_amount = min(balance * (position_size_pct / 100), balance - 1)
TradeAmount(bal, pct) == Min((bal * pct) \div 100, bal - RESERVE)

\* a test of the amount that lets every amount pass
NeverTooSmall(trade_amount) == FALSE

\* trade_amount < 1
TooSmall(trade_amount) == trade_amount < MIN_TRADE

SellTrade(reason, price, pnl, idx) ==
    [action |-> "sell", reason |-> reason, price |-> price, pnl |-> pnl, idx |-> idx]

BuyTrade(price, idx) ==
    [action |-> "buy", reason |-> "signal", price |-> price, pnl |-> 0, idx |-> idx]

\* the exit tests with RSI > 65 first
ExitReasonRsiFirst(pos, c, sl, tp) ==
    IF RsiSellSignal(c) THEN "rsi_overbought"
    ELSE IF StopLossHit(pos, c.close, sl) THEN "stop_loss"
    ELSE IF TakeProfitHit(pos, c.close, tp) THEN "take_profit"
    ELSE ""

\* a test of the position that never finds one
NoPosition(pos) == FALSE

\* "if position:", a position is open
HasPosition(pos) == pos.open

\* the reason of the exit at candle c with position pos open, "" when none
ExitReason(pos, c, sl, tp) ==
    IF StopLossHit(pos, c.close, sl) THEN "stop_loss"
    ELSE IF TakeProfitHit(pos, c.close, tp) THEN "take_profit"
    ELSE IF RsiSellSignal(c) THEN "rsi_overbought"
    ELSE ""

\* a Backtester and a series with closes among cs, before run
BtInit(cs) ==
    /\ closes = cs
    /\ initial_balance \in InitialBalances
    /\ position_size_pct \in PositionSizePcts
    /\ stop_loss_pct \in StopLossPcts
    /\ take_profit_pct \in TakeProfitPcts
    /\ n \in SeriesLengths
    /\ pc = "start"
    /\ i = 0
    /\ balance = 0
    /\ position = None
    /\ trades = <<>>
    /\ equity_curve = <<>>
    /\ final_balance = 0
    /\ last_close = 0
    /\ candle = NoCandle
    /\ df = <<>>

\* a Backtester and a flat series of 199 or 300 candles, of which the
\* indicators are computed
BtFlatInit ==
    /\ \E p \in Prices, len \in {WARMUP - 1, WARMUP + 100} :
          /\ closes = {p}
          /\ df = FlatSeries(p, len)
    /\ n = Len(df)
    /\ initial_balance \in InitialBalances
    /\ position_size_pct \in PositionSizePcts
    /\ stop_loss_pct \in StopLossPcts
    /\ take_profit_pct \in TakeProfitPcts
    /\ pc = "start"
    /\ i = 0
    /\ balance = 0
    /\ position = None
    /\ trades = <<>>
    /\ equity_curve = <<>>
    /\ final_balance = 0
    /\ last_close = 0
    /\ candle = NoCandle

\* the candles the series may hold at index idx: the one computed from df,
\* or, without df, any of CandlesOf
SeriesCandles(idx) ==
    IF df = <<>> THEN CandlesOf(closes, undefined) ELSE {CandleAt(df, idx + 1)}

\* BacktestResult.max_drawdown_pct, the loop: peak and max_dd so far, over the
\* rest of the curve; the division by a peak of zero raises ZeroDivisionError
RECURSIVE DrawdownFrom(_, _, _)
DrawdownFrom(curve, peak, max_dd) ==
    IF curve = <<>> THEN [raised |-> FALSE, value |-> max_dd]
    ELSE LET equity == Head(curve)
             new_peak == IF equity > peak THEN equity ELSE peak
         IN  IF new_peak = 0 THEN [raised |-> TRUE, value |-> 0]
             ELSE LET dd == ((new_peak - equity) * 100) \div new_peak
                  IN  DrawdownFrom(Tail(curve), new_peak,
                                   IF dd > max_dd THEN dd ELSE max_dd)

\* BacktestResult.max_drawdown_pct, in whole percents
max_drawdown_pct(curve) ==
    IF curve = <<>> THEN [raised |-> FALSE, value |-> 0]
    ELSE DrawdownFrom(curve, curve[1], 0)

\* a short series answered with final_balance 0
RunInsufficientZero ==
    /\ pc = "start"
    /\ n < WARMUP
    /\ final_balance' = 0
    /\ pc' = "done"
    /\ UNCHANGED <<initial_balance, position_size_pct, stop_loss_pct,
                   take_profit_pct, n, i, balance, position, trades,
                   equity_curve, last_close, candle, closes, undefined, df>>
    /\ UNCHANGED agent_vars
    /\ UNCHANGED kl_vars

\* run, lines 162-168: the series is too short
RunInsufficient ==
    /\ pc = "start"
    /\ n < WARMUP
    /\ final_balance' = initial_balance
    /\ pc' = "done"
    /\ UNCHANGED <<initial_balance, position_size_pct, stop_loss_pct,
                   take_profit_pct, n, i, balance, position, trades,
                   equity_curve, last_close, candle, closes, undefined, df>>
    /\ UNCHANGED agent_vars
    /\ UNCHANGED kl_vars

\* run, lines 170-179: indicators computed, the loop is entered
RunStart ==
    /\ pc = "start"
    /\ ~(n < WARMUP)
    /\ balance' = initial_balance
    /\ position' = None
    /\ i' = WARMUP
    /\ pc' = "loop"
    /\ UNCHANGED <<initial_balance, position_size_pct, stop_loss_pct,
                   take_profit_pct, n, trades, equity_curve, final_balance,
                   last_close, candle, closes, undefined, df>>
    /\ UNCHANGED agent_vars
    /\ UNCHANGED kl_vars

\* the new balance, position and trades after the decision part (lines 202-266)
Decide(c) ==
    IF HasPosition(position)
    THEN LET reason == ExitReason(position, c, stop_loss_pct, take_profit_pct)
         IN  IF reason # ""
             THEN /\ balance' = balance + LoopCredit(position, c.close)
                  /\ trades' = Append(trades,
                        SellTrade(reason, c.close,
                                  close_position(position, c.close), i))
                  /\ position' = None
             ELSE UNCHANGED <<balance, position, trades>>
    ELSE IF BuySignal(c)
         THEN LET trade_amount == TradeAmount(balance, position_size_pct)
                  fee == Fee(trade_amount)
                  qty == ((trade_amount - fee) * 1000) \div c.close
              IN  IF TooSmall(trade_amount)
                  THEN UNCHANGED <<balance, position, trades>>
                  ELSE /\ balance' = balance - trade_amount
                       /\ position' = [open |-> TRUE, qty |-> qty,
                                       entry_price |-> c.close,
                                       entry_amount |-> trade_amount,
                                       entry_idx |-> i]
                       /\ trades' = Append(trades, BuyTrade(c.close, i))
         ELSE UNCHANGED <<balance, position, trades>>

\* one iteration of the loop of run, lines 182-266, on the candle at index i
LoopBody ==
    /\ pc = "loop"
    /\ i < n
    /\ \E c \in SeriesCandles(i) :
        /\ candle' = c
        /\ last_close' = c.close
        /\ IF Skipped(c)
           THEN /\ equity_curve' = Append(equity_curve, balance)
                /\ UNCHANGED <<balance, position, trades>>
           ELSE /\ equity_curve' = Append(equity_curve,
                      IF position.open
                      THEN balance + Value(position.qty, c.close)
                      ELSE balance)
                /\ Decide(c)
    /\ i' = i + 1
    /\ UNCHANGED <<initial_balance, position_size_pct, stop_loss_pct,
                   take_profit_pct, n, pc, final_balance, closes, undefined, df>>
    /\ UNCHANGED agent_vars
    /\ UNCHANGED kl_vars

\* the end of run without the close of the open position
RunFinishNoClose ==
    /\ pc = "loop"
    /\ ~(i < n)
    /\ final_balance' = balance
    /\ pc' = "done"
    /\ UNCHANGED <<initial_balance, position_size_pct, stop_loss_pct,
                   take_profit_pct, n, i, balance, position, trades,
                   equity_curve, last_close, candle, closes, undefined, df>>
    /\ UNCHANGED agent_vars
    /\ UNCHANGED kl_vars

\* run, lines 268-280: the loop is over, an open position is closed
RunFinish ==
    /\ pc = "loop"
    /\ ~(i < n)
    /\ IF position.open
       THEN /\ balance' = balance + FinalCredit(position, last_close)
            /\ trades' = Append(trades,
                  [action |-> "sell", reason |-> "end_of_data",
                   price |-> last_close,
                   pnl |-> close_position(position, last_close),
                   idx |-> n - 1])
       ELSE UNCHANGED <<balance, trades>>
    /\ final_balance' = balance'
    /\ pc' = "done"
    /\ UNCHANGED <<initial_balance, position_size_pct, stop_loss_pct,
                   take_profit_pct, n, i, position, equity_curve,
                   last_close, candle, closes, undefined, df>>
    /\ UNCHANGED agent_vars
    /\ UNCHANGED kl_vars

-----------------------------------------------------------------------------
(* The live agent: TradeHistory, PortfolioManager, RiskManager, TradingAgent *)
(* Amounts of USDT are in milli-USDT, quantities of coin in milli-coin,     *)
(* prices in whole USDT.  Instead of its timestamp a row of table trades    *)
(* holds whether it is older than a day now (timestamp < now - 1 day); the  *)
(* rows are in the order of their timestamps, so the old rows are a prefix. *)

\* rows the table trades holds at most
MaxHist == 2

\* config.MAX_TRADE_AMOUNT, 10 USDT
MAX_TRADE_AMOUNT == 10000

\* config.MAX_DAILY_LOSS, 20 USDT
MAX_DAILY_LOSS == 20000

\* balances up to 0.001 coin are dust
DUST == 1

\* the 1 USDT buffer of has_sufficient_funds
BUFFER == 1000

TRADING_PAIRS == <<"BTCUSDT">>

Symbols == {TRADING_PAIRS[k] : k \in 1..Len(TRADING_PAIRS)}

\* symbol.replace("USDT", "")
Coin(symbol) == IF symbol = "BTCUSDT" THEN "BTC" ELSE "ETH"

Assets == {"USDT", "BTC"}

\* PortfolioManager._balances before the first refresh
EmptyPortfolio == [a \in Assets |-> 0]

\* wallet balances the exchange reports
Portfolios ==
    {[a \in Assets |-> IF a = "USDT" THEN 11000 ELSE 400],
     [a \in Assets |-> IF a = "USDT" THEN 5000 ELSE 1]}

\* current prices the exchange reports
MarketPrices == {20, 100, 200}

\* recommendations of the decision source; 0 stands for a missing field
Recommendations ==
    {[action |-> "hold", price_from |-> 0, price_to |-> 0, quantity_usdt |-> 0],
     [action |-> "wait", price_from |-> 0, price_to |-> 0, quantity_usdt |-> 5000]}
    \cup
    {[action |-> a, price_from |-> 0, price_to |-> 0, quantity_usdt |-> q] :
        a \in {"buy", "sell"}, q \in {0, 5000}}
    \cup
    {[action |-> a, price_from |-> 1, price_to |-> 10, quantity_usdt |-> 5000] :
        a \in {"buy", "sell"}}

\* retCode of the response of the exchange to place_order
RetCodes == {0, -1}

NoCall == [op |-> "", action |-> "", feasible |-> FALSE, ret |-> FALSE, reason |-> ""]

\* ---- TradeHistory ----

\* the rows get_performance_stats(days=1) selects:
\* timestamp >= now - 1 day AND action != 'hold'
DayTrades(h) == SelectSeq(h, LAMBDA r : ~r.old /\ r.action # "hold")

RECURSIVE SumUsdt(_, _, _)
SumUsdt(rows, sym, act) ==
    IF rows = <<>> THEN 0
    ELSE (IF rows[1].symbol = sym /\ rows[1].action = act
          THEN rows[1].quantity_usdt ELSE 0) + SumUsdt(Tail(rows), sym, act)

RECURSIVE SumCrypto(_, _, _)
SumCrypto(rows, sym, act) ==
    IF rows = <<>> THEN 0
    ELSE (IF rows[1].symbol = sym /\ rows[1].action = act
          THEN rows[1].quantity_crypto ELSE 0) + SumCrypto(Tail(rows), sym, act)

\* _calculate_pnl_by_symbol(trades)[sym]["realized_pnl"], in milli-USDT;
\* the average prices are in milli-USDT per coin
realized_pnl(rows, sym) ==
    LET buy_vol == SumUsdt(rows, sym, "buy")
        sell_vol == SumUsdt(rows, sym, "sell")
        buy_crypto == SumCrypto(rows, sym, "buy")
        sell_crypto == SumCrypto(rows, sym, "sell")
        avg_buy_price == IF buy_crypto > 0 THEN (buy_vol * 1000) \div buy_crypto ELSE 0
        avg_sell_price == IF sell_crypto > 0 THEN (sell_vol * 1000) \div sell_crypto ELSE 0
    IN  IF avg_buy_price > 0 /\ sell_crypto > 0
        THEN (sell_crypto * (avg_sell_price - avg_buy_price)) \div 1000
        ELSE 0

RECURSIVE SumRealized(_, _)
SumRealized(rows, syms) ==
    IF syms = <<>> THEN 0
    ELSE realized_pnl(rows, Head(syms)) + SumRealized(rows, Tail(syms))

\* TradeHistory.get_daily_pnl
get_daily_pnl(h) == SumRealized(DayTrades(h), TRADING_PAIRS)

\* ---- PortfolioManager ----

usdt_balance(bal) == bal["USDT"]

\* get_position(symbol) is not None
get_position(bal, symbol) == bal[Coin(symbol)] > DUST

\* the test of the funds without the buffer
has_sufficient_funds_no_buffer(bal, amount_usdt) == usdt_balance(bal) >= amount_usdt

\* PortfolioManager.has_sufficient_funds
has_sufficient_funds(bal, amount_usdt) == usdt_balance(bal) >= amount_usdt + BUFFER

can_sell(bal, symbol, quantity_usdt, current_price) ==
    /\ get_position(bal, symbol)
    /\ bal[Coin(symbol)] >= quantity_usdt \div current_price

\* ---- RiskManager ----

\* the limit tested with <=
is_trading_allowed_le(h) ==
    IF get_daily_pnl(h) <= 0 - MAX_DAILY_LOSS
    THEN [allowed |-> FALSE, reason |-> "daily_loss"]
    ELSE [allowed |-> TRUE, reason |-> ""]

\* RiskManager.is_trading_allowed: (allowed, reason)
is_trading_allowed(h) ==
    IF get_daily_pnl(h) < 0 - MAX_DAILY_LOSS
    THEN [allowed |-> FALSE, reason |-> "daily_loss"]
    ELSE [allowed |-> TRUE, reason |-> ""]

\* ---- TradingAgent ----

\* the limit tested on the wrong side
DailyGainExceeded(daily_pnl) == daily_pnl > MAX_DAILY_LOSS

\* daily_pnl < -config.MAX_DAILY_LOSS, in execute_trade and in run
DailyLossExceeded(daily_pnl) == daily_pnl < 0 - MAX_DAILY_LOSS

\* price_from and price_to and not (price_from <= current_price <= price_to)
OutOfRange(rec, current_price) ==
    /\ rec.price_from # 0
    /\ rec.price_to # 0
    /\ ~(rec.price_from <= current_price /\ current_price <= rec.price_to)

\* the amount as recommended
Unclamped(q) == q

\* quantity_usdt after the clamp to max_trade_amount
Clamped(q) == IF q > MAX_TRADE_AMOUNT THEN MAX_TRADE_AMOUNT ELSE q

\* the row record_trade inserts, its timestamp being datetime.now()
Row(symbol, action, price, quantity_usdt, quantity_crypto, success) ==
    [old |-> FALSE, symbol |-> symbol, action |-> action, price |-> price,
     quantity_usdt |-> quantity_usdt, quantity_crypto |-> quantity_crypto,
     success |-> success]

\* a response taken for a success whatever its retCode
OrderAlwaysSucceeded(retCode) == TRUE

\* success = result.get("retCode") == 0
OrderSucceeded(retCode) == retCode = 0

\* the tests of execute_trade other than the daily loss limit pass: a known
\* action, the price in the recommended range, a positive amount, and the
\* funds (buy) or the coins (sell) to trade it
OrderIsFeasible(bal, symbol, rec, current_price) ==
    /\ rec.action \in {"buy", "sell"}
    /\ ~OutOfRange(rec, current_price)
    /\ rec.quantity_usdt > 0
    /\ rec.action = "buy" => has_sufficient_funds(bal, Clamped(rec.quantity_usdt))
    /\ rec.action = "sell" =>
          can_sell(bal, symbol, Clamped(rec.quantity_usdt), current_price)

Rejected == [ret |-> FALSE, rows |-> <<>>, orders |-> <<>>]

\* TradingAgent.execute_trade: what it returns, the rows it records and the
\* orders it places, with daily_pnl what self.history.get_daily_pnl() returns
\* and retCode the answer of the exchange to place_order
execute_trade(daily_pnl, bal, et, symbol, rec, current_price, retCode) ==
    LET quantity_usdt == Clamped(rec.quantity_usdt)
        qty_crypto == quantity_usdt \div current_price
    IN  IF rec.action = "hold"
        THEN [ret |-> TRUE,
              rows |-> <<Row(symbol, "hold", current_price, 0, 0, TRUE)>>,
              orders |-> <<>>]
        ELSE IF OutOfRange(rec, current_price) THEN Rejected
        ELSE IF rec.quantity_usdt <= 0 THEN Rejected
        ELSE IF DailyLossExceeded(daily_pnl) THEN Rejected
        ELSE IF rec.action = "buy" /\ ~has_sufficient_funds(bal, quantity_usdt)
             THEN Rejected
        ELSE IF rec.action = "sell" /\ ~can_sell(bal, symbol, quantity_usdt, current_price)
             THEN Rejected
        ELSE IF rec.action \notin {"buy", "sell"} THEN Rejected
        ELSE IF ~et
             THEN [ret |-> TRUE,
                   rows |-> <<Row(symbol, rec.action, current_price,
                                  quantity_usdt, qty_crypto, TRUE)>>,
                   orders |-> <<>>]
        ELSE [ret |-> OrderSucceeded(retCode),
              rows |-> <<Row(symbol, rec.action, current_price,
                             quantity_usdt, qty_crypto, OrderSucceeded(retCode))>>,
              orders |-> <<[symbol |-> symbol,
                            side |-> IF rec.action = "buy" THEN "Buy" ELSE "Sell",
                            qty |-> qty_crypto]>>]

\* a TradingAgent with an empty table trades; config.ENABLE_TRADING has its
\* default, true
AgentInit ==
    /\ enable_trading = TRUE
    /\ history = <<>>
    /\ balances = EmptyPortfolio
    /\ orders = <<>>
    /\ apc = "idle"
    /\ pending = <<>>
    /\ last = NoCall

\* time passes: the rows up to row k are now older than a day
Tick ==
    /\ \E k \in 1..Len(history) :
          /\ ~history[k].old
          /\ history' = [j \in 1..Len(history) |->
                           IF j <= k THEN [history[j] EXCEPT !.old = TRUE]
                           ELSE history[j]]
    /\ last' = NoCall
    /\ UNCHANGED <<enable_trading, balances, orders, apc, pending>>
    /\ UNCHANGED bt_vars
    /\ UNCHANGED kl_vars

\* recommendation.get("confidence", 0)
Confidence(rec) == IF "confidence" \in DOMAIN rec THEN rec.confidence ELSE 0

\* the state after a call of execute_trade(symbol, rec, price), with daily_pnl
\* what get_daily_pnl returns to it; the exchange answers retCode when an
\* order is placed; with seen, last holds the arguments and the retCode too
DoExecuteTradeSeen(daily_pnl, symbol, rec, price, seen) ==
    LET asked == execute_trade(daily_pnl, balances, enable_trading,
                               symbol, rec, price, 0)
    IN  \E retCode \in (IF asked.orders = <<>> THEN {0} ELSE RetCodes) :
          LET res == IF retCode = 0 THEN asked
                     ELSE execute_trade(daily_pnl, balances, enable_trading,
                                        symbol, rec, price, retCode)
          IN  /\ Len(history) + Len(res.rows) <= MaxHist
              /\ history' = history \o res.rows
              /\ orders' = orders \o res.orders
              /\ last' = IF seen
                          THEN [op |-> "execute_trade", action |-> rec.action,
                                feasible |-> OrderIsFeasible(balances, symbol, rec, price),
                                ret |-> res.ret, reason |-> "",
                                confidence |-> Confidence(rec),
                                rec |-> rec, price |-> price, retCode |-> retCode]
                          ELSE [op |-> "execute_trade", action |-> rec.action,
                                feasible |-> OrderIsFeasible(balances, symbol, rec, price),
                                ret |-> res.ret, reason |-> "",
                                confidence |-> Confidence(rec)]

DoExecuteTrade(daily_pnl, symbol, rec, price) ==
    DoExecuteTradeSeen(daily_pnl, symbol, rec, price, FALSE)

\* the pairs of TRADING_PAIRS that are in avail, in the order of TRADING_PAIRS
PairsIn(avail) == SelectSeq(TRADING_PAIRS, LAMBDA s : s \in avail)

\* job() and TradingAgent.run, steps 1 to 7: a new agent refreshes its
\* portfolio, tests the daily loss limit, collects the market data and the
\* recommendations
RunBegin ==
    /\ apc = "idle"
    /\ \E p \in Portfolios : balances' = p
    /\ IF DailyLossExceeded(get_daily_pnl(history))
       THEN UNCHANGED <<apc, pending>>
       ELSE \E avail \in SUBSET Symbols :
               IF avail = {}
               THEN UNCHANGED <<apc, pending>>
               ELSE apc' = "run" /\ pending' = PairsIn(avail)
    /\ last' = NoCall
    /\ UNCHANGED <<enable_trading, history, orders>>
    /\ UNCHANGED bt_vars
    /\ UNCHANGED kl_vars

\* TradingAgent.run, step 8, one pair: no recommendation, or execute_trade
RunExecute ==
    /\ apc = "run"
    /\ pending # <<>>
    /\ \/ /\ last' = NoCall
          /\ UNCHANGED <<history, orders>>
       \/ LET daily_pnl == get_daily_pnl(history)
          IN  \E rec \in Recommendations, price \in MarketPrices :
                 DoExecuteTrade(daily_pnl, Head(pending), rec, price)
    /\ pending' = Tail(pending)
    /\ UNCHANGED <<enable_trading, balances, apc>>
    /\ UNCHANGED bt_vars
    /\ UNCHANGED kl_vars

\* TradingAgent.run, step 9: the iteration is over
RunEnd ==
    /\ apc = "run"
    /\ pending = <<>>
    /\ apc' = "idle"
    /\ last' = NoCall
    /\ UNCHANGED <<enable_trading, history, balances, orders, pending>>
    /\ UNCHANGED bt_vars
    /\ UNCHANGED kl_vars

\* a call of TradingAgent.execute_trade outside run
CallExecuteTrade ==
    /\ apc = "idle"
    /\ LET daily_pnl == get_daily_pnl(history)
       IN  \E symbol \in Symbols, rec \in Recommendations, price \in MarketPrices :
              DoExecuteTrade(daily_pnl, symbol, rec, price)
    /\ UNCHANGED <<enable_trading, balances, apc, pending>>
    /\ UNCHANGED bt_vars
    /\ UNCHANGED kl_vars

\* a call of RiskManager.is_trading_allowed
CallIsTradingAllowed ==
    /\ apc = "idle"
    /\ LET r == is_trading_allowed(history)
       IN  last' = [op |-> "is_trading_allowed", action |-> "", feasible |-> FALSE,
                    ret |-> r.allowed, reason |-> r.reason]
    /\ UNCHANGED <<enable_trading, history, balances, orders, apc, pending>>
    /\ UNCHANGED bt_vars
    /\ UNCHANGED kl_vars

-----------------------------------------------------------------------------
(* RiskManager, and the calls that make the state it reads *)

\* config.STOP_LOSS_PCT and config.TAKE_PROFIT_PCT, in percents
STOP_LOSS_PCT == 5
TAKE_PROFIT_PCT == 3

\* config.MIN_CONFIDENCE
MIN_CONFIDENCE == 60

\* config.POSITION_SIZE_PCT, in percents
POSITION_SIZE_PCT == 5

\* the least position size, 1 USDT
MIN_SIZE == 1000

\* get_recent_trades(limit=50, ...) of _get_entry_price
RECENT_LIMIT == 50

\* prices the recommendations scored by the decision source are executed at
ScoredPrices == {100, 200}

\* recommendations with the confidence of the decision source, or without it
ScoredRecommendations ==
    {[action |-> a, price_from |-> 0, price_to |-> 0, quantity_usdt |-> 5000,
      confidence |-> k] : a \in {"hold", "buy", "sell"}, k \in {59, 60}}
    \cup
    {[action |-> a, price_from |-> 0, price_to |-> 0, quantity_usdt |-> 5000] :
        a \in {"hold", "buy"}}

\* current prices check_stop_loss and check_take_profit are asked about
CheckPrices == {94, 95, 96, 102, 103, 104, 190}

\* PortfolioManager.total_equity, in milli-USDT
Equities == {0, 10000, 100000, 1000000}

\* what a check returns when it advises nothing
NoAdvice == [action |-> "", reason |-> "", entry_price |-> 0, quantity_usdt |-> 0]

RECURSIVE Reverse(_)
Reverse(q) == IF q = <<>> THEN <<>> ELSE Append(Reverse(Tail(q)), Head(q))

\* TradeHistory.get_recent_trades(limit, symbol): the rows of symbol, the
\* latest first, at most limit of them
get_recent_trades(h, limit, symbol) ==
    LET rows == Reverse(SelectSeq(h, LAMBDA r : r.symbol = symbol))
    IN  IF Len(rows) > limit THEN SubSeq(rows, 1, limit) ELSE rows

\* the first row of rows that is a buy, whatever its success
RECURSIVE FirstBuy(_)
FirstBuy(rows) ==
    IF rows = <<>> THEN [found |-> FALSE, price |-> 0, quantity_usdt |-> 0]
    ELSE IF Head(rows).action = "buy"
         THEN [found |-> TRUE, price |-> Head(rows).price,
               quantity_usdt |-> Head(rows).quantity_usdt]
         ELSE FirstBuy(Tail(rows))

\* the loop of _get_entry_price: the first row of rows that is a successful buy
RECURSIVE FirstSuccessfulBuy(_)
FirstSuccessfulBuy(rows) ==
    IF rows = <<>> THEN [found |-> FALSE, price |-> 0, quantity_usdt |-> 0]
    ELSE IF Head(rows).action = "buy" /\ Head(rows).success
         THEN [found |-> TRUE, price |-> Head(rows).price,
               quantity_usdt |-> Head(rows).quantity_usdt]
         ELSE FirstSuccessfulBuy(Tail(rows))

\* the entry price taken from the latest buy, successful or not
get_entry_price_any(bal, h, symbol) ==
    IF ~get_position(bal, symbol)
    THEN [found |-> FALSE, price |-> 0, quantity_usdt |-> 0]
    ELSE FirstBuy(get_recent_trades(h, RECENT_LIMIT, symbol))

\* RiskManager._get_entry_price
get_entry_price(bal, h, symbol) ==
    IF ~get_position(bal, symbol)
    THEN [found |-> FALSE, price |-> 0, quantity_usdt |-> 0]
    ELSE FirstSuccessfulBuy(get_recent_trades(h, RECENT_LIMIT, symbol))

\* (current_price - entry_price) / entry_price * 100 <= pct, entry_price > 0
PctChangeLe(current_price, entry_price, pct) ==
    (current_price - entry_price) * 100 <= pct * entry_price

\* (current_price - entry_price) / entry_price * 100 >= pct, entry_price > 0
PctChangeGe(current_price, entry_price, pct) ==
    (current_price - entry_price) * 100 >= pct * entry_price

\* RiskManager.check_stop_loss
check_stop_loss(bal, h, symbol, current_price) ==
    LET entry == get_entry_price(bal, h, symbol)
    IN  IF ~entry.found THEN NoAdvice
        ELSE IF PctChangeLe(current_price, entry.price, 0 - STOP_LOSS_PCT)
             THEN [action |-> "sell", reason |-> "stop_loss",
                   entry_price |-> entry.price,
                   quantity_usdt |-> entry.quantity_usdt]
             ELSE NoAdvice

\* RiskManager.check_take_profit
check_take_profit(bal, h, symbol, current_price) ==
    LET entry == get_entry_price(bal, h, symbol)
    IN  IF ~entry.found THEN NoAdvice
        ELSE IF PctChangeGe(current_price, entry.price, TAKE_PROFIT_PCT)
             THEN [action |-> "sell", reason |-> "take_profit",
                   entry_price |-> entry.price,
                   quantity_usdt |-> entry.quantity_usdt]
             ELSE NoAdvice

\* the filter with the threshold itself rejected
filter_by_confidence_le(rec) ==
    IF rec.action = "hold" THEN TRUE
    ELSE ~(Confidence(rec) <= MIN_CONFIDENCE)

\* RiskManager.filter_by_confidence
filter_by_confidence(rec) ==
    IF rec.action = "hold" THEN TRUE
    ELSE ~(Confidence(rec) < MIN_CONFIDENCE)

\* RiskManager.calculate_position_size, with equity the total equity of the
\* portfolio
calculate_position_size(equity) ==
    IF equity <= 0 THEN MAX_TRADE_AMOUNT
    ELSE LET size == (equity * POSITION_SIZE_PCT) \div 100
             capped == Min(size, MAX_TRADE_AMOUNT)
         IN  IF capped > MIN_SIZE THEN capped ELSE MIN_SIZE

\* PortfolioManager.refresh
Refresh ==
    /\ \E p \in Portfolios : balances' = p
    /\ last' = NoCall
    /\ UNCHANGED <<enable_trading, history, orders, apc, pending>>
    /\ UNCHANGED bt_vars
    /\ UNCHANGED kl_vars

\* a call of execute_trade for a recommendation of the decision source
CallExecuteTradeScored ==
    /\ LET daily_pnl == get_daily_pnl(history)
       IN  \E symbol \in Symbols, rec \in ScoredRecommendations,
              price \in ScoredPrices :
              /\ "confidence" \in DOMAIN rec
              /\ DoExecuteTrade(daily_pnl, symbol, rec, price)
    /\ UNCHANGED <<enable_trading, balances, apc, pending>>
    /\ UNCHANGED bt_vars
    /\ UNCHANGED kl_vars

\* a call of RiskManager.filter_by_confidence
CallFilterByConfidence ==
    /\ \E rec \in ScoredRecommendations :
          last' = [op |-> "filter_by_confidence", rec |-> rec,
                   ret |-> filter_by_confidence(rec)]
    /\ UNCHANGED <<enable_trading, history, balances, orders, apc, pending>>
    /\ UNCHANGED bt_vars
    /\ UNCHANGED kl_vars

\* a call of RiskManager.calculate_position_size
CallCalculatePositionSize ==
    /\ \E equity \in Equities :
          last' = [op |-> "calculate_position_size", equity |-> equity,
                   ret |-> calculate_position_size(equity)]
    /\ UNCHANGED <<enable_trading, history, balances, orders, apc, pending>>
    /\ UNCHANGED bt_vars
    /\ UNCHANGED kl_vars

\* a call of RiskManager.check_stop_loss
CallCheckStopLoss ==
    /\ \E symbol \in Symbols, price \in CheckPrices :
          last' = [op |-> "check_stop_loss", symbol |-> symbol, price |-> price,
                   ret |-> check_stop_loss(balances, history, symbol, price)]
    /\ UNCHANGED <<enable_trading, history, balances, orders, apc, pending>>
    /\ UNCHANGED bt_vars
    /\ UNCHANGED kl_vars

\* a call of RiskManager.check_take_profit
CallCheckTakeProfit ==
    /\ \E symbol \in Symbols, price \in CheckPrices :
          last' = [op |-> "check_take_profit", symbol |-> symbol, price |-> price,
                   ret |-> check_take_profit(balances, history, symbol, price)]
    /\ UNCHANGED <<enable_trading, history, balances, orders, apc, pending>>
    /\ UNCHANGED bt_vars
    /\ UNCHANGED kl_vars

-----------------------------------------------------------------------------
(* TradingAgent.execute_trade, call by call *)

\* amounts recommended: negative, missing or zero, below and above
\* max_trade_amount
OrderAmounts == {-5000, 0, 5000, 15000}

OrderRecommendations ==
    {[action |-> "hold", price_from |-> 0, price_to |-> 0, quantity_usdt |-> 0],
     [action |-> "wait", price_from |-> 0, price_to |-> 0, quantity_usdt |-> 5000]}
    \cup
    {[action |-> a, price_from |-> 0, price_to |-> 0, quantity_usdt |-> q] :
        a \in {"buy", "sell"}, q \in OrderAmounts}

OrderPrices == {20, 100}

\* a call of execute_trade of which the arguments and the response of the
\* exchange are kept
CallExecuteTradeSeen ==
    /\ LET daily_pnl == get_daily_pnl(history)
       IN  \E symbol \in Symbols, rec \in OrderRecommendations,
              price \in OrderPrices :
              DoExecuteTradeSeen(daily_pnl, symbol, rec, price, TRUE)
    /\ UNCHANGED <<enable_trading, balances, apc, pending>>
    /\ UNCHANGED bt_vars
    /\ UNCHANGED kl_vars

-----------------------------------------------------------------------------
(* BybitClient.get_klines: the download of a range of klines, page by page. *)
(* A kline is held by its timestamp, kline[0].                              *)

\* the timestamps the server answers with are 1 .. MaxStamp
MaxStamp == 3

\* limit=200, the size of a full page
PAGE_LIMIT == 200

Stamps == 1..MaxStamp

StartTimes == {0, 2}
EndTimes == {0, 4}
MaxRequestsValues == {0, 1, 3}

\* result.list of a response: the klines of stamps, then more copies of the
\* last of them; short pages, and pages of PAGE_LIMIT klines
Pages ==
    {[stamps |-> st, more |-> m] :
        st \in {<<a>> : a \in Stamps} \cup {<<a, b>> : a, b \in Stamps},
        m \in {0, PAGE_LIMIT - 2, PAGE_LIMIT - 1}}

\* len(klines)
PageLen(page) == Len(page.stamps) + page.more

\* the klines of the page, all of them new or not
RECURSIVE UnfilteredKlines(_, _)
UnfilteredKlines(stamps, seen) ==
    IF stamps = <<>> THEN <<>>
    ELSE <<Head(stamps)>> \o UnfilteredKlines(Tail(stamps), seen)

\* lines 64-69: the klines whose timestamp is not in seen, each timestamp once
RECURSIVE NewKlines(_, _)
NewKlines(stamps, seen) ==
    IF stamps = <<>> THEN <<>>
    ELSE IF Head(stamps) \in seen
         THEN NewKlines(Tail(stamps), seen)
         ELSE <<Head(stamps)>> \o NewKlines(Tail(stamps), seen \cup {Head(stamps)})

\* the timestamps of a sequence of klines
StampsOf(klines) == {klines[k] : k \in 1..Len(klines)}

\* a call get_klines(symbol, interval, start_time, end_time, max_requests),
\* before its loop (lines 34-38)
KlInit ==
    /\ kpc = "loop"
    /\ current_start \in StartTimes
    /\ end_time \in EndTimes
    /\ max_requests \in MaxRequestsValues
    /\ request_count = 0
    /\ all_klines = <<>>
    /\ seen_timestamps = {}

\* the while condition of line 43
KlContinue == current_start < end_time /\ request_count < max_requests

\* one iteration (lines 44-101) of which the request raises, or a kline of
\* the page has a timestamp int() refuses, after those of seen_more
RequestRaises ==
    /\ kpc = "loop"
    /\ KlContinue
    /\ request_count' = request_count + 1
    /\ \E seen_more \in SUBSET Stamps :
          seen_timestamps' = seen_timestamps \cup seen_more
    /\ kpc' = "done"
    /\ UNCHANGED <<current_start, end_time, max_requests, all_klines>>
    /\ UNCHANGED <<bt_vars, agent_vars>>

\* one iteration answered with retCode # 0 or an empty list (lines 96-98)
RequestEmpty ==
    /\ kpc = "loop"
    /\ KlContinue
    /\ request_count' = request_count + 1
    /\ kpc' = "done"
    /\ UNCHANGED <<current_start, end_time, max_requests, all_klines,
                   seen_timestamps>>
    /\ UNCHANGED <<bt_vars, agent_vars>>

\* one iteration answered with a page of klines (lines 57-95)
RequestPage ==
    /\ kpc = "loop"
    /\ KlContinue
    /\ request_count' = request_count + 1
    /\ \E page \in Pages :
          LET new_klines == NewKlines(page.stamps, seen_timestamps)
              oldest_timestamp == page.stamps[Len(page.stamps)]
          IN  /\ seen_timestamps' = seen_timestamps \cup StampsOf(page.stamps)
              /\ IF new_klines = <<>>
                 THEN /\ kpc' = "done"
                      /\ UNCHANGED <<all_klines, end_time>>
                 ELSE /\ all_klines' = all_klines \o new_klines
                      /\ IF PageLen(page) < PAGE_LIMIT
                         THEN kpc' = "done" /\ UNCHANGED end_time
                         ELSE IF oldest_timestamp <= current_start
                         THEN kpc' = "done" /\ UNCHANGED end_time
                         ELSE kpc' = "loop" /\ end_time' = oldest_timestamp - 1
    /\ UNCHANGED <<current_start, max_requests>>
    /\ UNCHANGED <<bt_vars, agent_vars>>

\* the loop ends by its condition and all_klines is returned (lines 103-107)
KlReturn ==
    /\ kpc = "loop"
    /\ ~KlContinue
    /\ kpc' = "done"
    /\ UNCHANGED <<current_start, end_time, max_requests, request_count,
                   all_klines, seen_timestamps>>
    /\ UNCHANGED <<bt_vars, agent_vars>>

-----------------------------------------------------------------------------
(* Specifications *)

\* the agent, idle, while a backtest runs
AgentIdle ==
    /\ enable_trading = TRUE
    /\ history = <<>>
    /\ balances = EmptyPortfolio
    /\ orders = <<>>
    /\ apc = "idle"
    /\ pending = <<>>
    /\ last = NoCall

\* no backtest while the agent runs
BtIdle ==
    /\ closes = {}
    /\ undefined = FALSE
    /\ initial_balance = 0
    /\ position_size_pct = 0
    /\ stop_loss_pct = 0
    /\ take_profit_pct = 0
    /\ n = 0
    /\ pc = "done"
    /\ i = 0
    /\ balance = 0
    /\ position = None
    /\ trades = <<>>
    /\ equity_curve = <<>>
    /\ final_balance = 0
    /\ last_close = 0
    /\ candle = NoCandle
    /\ df = <<>>

\* no download of klines
KlIdle ==
    /\ kpc = "idle"
    /\ current_start = 0
    /\ end_time = 0
    /\ max_requests = 0
    /\ request_count = 0
    /\ all_klines = <<>>
    /\ seen_timestamps = {}

Init == BtInit(Prices) /\ undefined = FALSE /\ AgentIdle /\ KlIdle

Next ==
    \/ RunInsufficient
    \/ RunStart
    \/ LoopBody
    \/ RunFinish

\* a run of the backtester on a series of positive closes
Spec == Init /\ [][Next]_vars

InitAnyPrice ==
    BtInit(Prices \cup BadPrices) /\ undefined = FALSE /\ AgentIdle /\ KlIdle

\* a run of the backtester on a series that may hold a negative close
SpecAnyPrice == InitAnyPrice /\ [][Next]_vars

InitUndefined == BtInit({100}) /\ undefined = TRUE /\ AgentIdle /\ KlIdle

\* a run of the backtester on a series of closes 100 of which EMA20, EMA50
\* and the MACD histogram may be undefined
SpecUndefined == InitUndefined /\ [][Next]_vars

InitFlat == BtFlatInit /\ undefined = FALSE /\ AgentIdle /\ KlIdle

\* a run of the backtester on a flat series of 199 or 300 candles
SpecFlat == InitFlat /\ [][Next]_vars

InitAgent == BtIdle /\ AgentInit /\ KlIdle

NextAgent ==
    \/ Tick
    \/ RunBegin
    \/ RunExecute
    \/ RunEnd
    \/ CallExecuteTrade
    \/ CallIsTradingAllowed

\* the live agent
SpecAgent == InitAgent /\ [][NextAgent]_vars

NextRisk ==
    \/ Refresh
    \/ CallExecuteTradeScored
    \/ CallFilterByConfidence
    \/ CallCalculatePositionSize
    \/ CallCheckStopLoss
    \/ CallCheckTakeProfit

\* the RiskManager of an agent, between calls of execute_trade
SpecRisk == InitAgent /\ [][NextRisk]_vars

\* an agent with config.ENABLE_TRADING true or false
InitOrders ==
    /\ BtIdle
    /\ KlIdle
    /\ enable_trading \in BOOLEAN
    /\ history = <<>>
    /\ balances = EmptyPortfolio
    /\ orders = <<>>
    /\ apc = "idle"
    /\ pending = <<>>
    /\ last = NoCall

NextOrders ==
    \/ Refresh
    \/ CallExecuteTradeSeen

\* calls of execute_trade between refreshes of the portfolio
SpecOrders == InitOrders /\ [][NextOrders]_vars

InitKlines == BtIdle /\ AgentIdle /\ KlInit

NextKlines ==
    \/ RequestEmpty
    \/ RequestRaises
    \/ RequestPage
    \/ KlReturn

\* a call of get_klines; the loop is sequential code and every request
\* returns or raises (the client has a timeout), so a step that is possible
\* is taken
SpecKlines == InitKlines /\ [][NextKlines]_vars /\ WF_vars(NextKlines)

-----------------------------------------------------------------------------
(* Properties of Backtester.run *)

RECURSIVE SumPnl(_)
SumPnl(ts) == IF ts = <<>> THEN 0 ELSE ts[1].pnl + SumPnl(Tail(ts))

Count(ts, a) == Cardinality({k \in 1..Len(ts) : ts[k].action = a})

LastTrade == trades[Len(trades)]

\* the step is one iteration of the loop of run
LoopStep == pc = "loop" /\ pc' = "loop" /\ i' = i + 1

\* C1: a run on a series of fewer than 200 candles (the empty one included)
\* returns no trade and final_balance = initial_balance
C1_ShortSeriesNoTrades ==
    (pc = "done" /\ n < 200) =>
        (trades = <<>> /\ final_balance = initial_balance)

C1_Witness ==
    pc = "done" /\ n = 199 /\ initial_balance > 0 /\ final_balance = initial_balance

\* C2: at most one position is open at any time: in the trade log buys and
\* sells strictly alternate, starting with a buy, and while the loop runs a
\* position is open exactly when the last trade recorded is a buy
C2_OnePositionAlternation ==
    /\ \A k \in 1..Len(trades) :
          trades[k].action = (IF k % 2 = 1 THEN "buy" ELSE "sell")
    /\ pc = "loop" => (position.open <=> Len(trades) % 2 = 1)

C2_Witness ==
    /\ Len(trades) = 4
    /\ trades[3].action = "buy"
    /\ trades[4].action = "sell"
    /\ trades[4].reason # "end_of_data"

\* C3: on a candle that reaches the exit tests with a position open, the
\* tests are stop-loss, take-profit, RSI > 65 in this order and the first
\* that holds gives the sell its reason; with none, nothing is sold
C3_ExitPriority ==
    [][ (LoopStep /\ position.open /\ candle'.rsi # NaN /\ candle'.atr # NaN) =>
          LET price == candle'.close
              entry == position.entry_price
              sl == price * 100 <= entry * (100 - stop_loss_pct)
              tp == price * 100 >= entry * (100 + take_profit_pct)
              ob == candle'.rsi > 65
              sold(r) == /\ Len(trades') = Len(trades) + 1
                         /\ trades'[Len(trades')].action = "sell"
                         /\ trades'[Len(trades')].reason = r
                         /\ ~position'.open
          IN  /\ sl => sold("stop_loss")
              /\ (~sl /\ tp) => sold("take_profit")
              /\ (~sl /\ ~tp /\ ob) => sold("rsi_overbought")
              /\ (~sl /\ ~tp /\ ~ob) => (trades' = trades /\ position' = position)
      ]_vars

\* the stop-loss condition and RSI > 65 held on the same candle
C3_Witness ==
    /\ pc = "loop"
    /\ trades # <<>>
    /\ LastTrade.reason = "stop_loss"
    /\ LastTrade.idx = i - 1
    /\ candle.rsi > 65

\* C4: a buy is recorded at a candle only if no position is open there and
\* RSI < 35, EMA20 > EMA50 and MACD histogram > 0 all hold on it
C4_EntryNeedsAllThree ==
    [][ ((Len(trades') > Len(trades) /\ trades'[Len(trades')].action = "buy")
            \/ (position'.open /\ position' # position)) =>
          /\ ~position.open
          /\ candle'.rsi # NaN /\ candle'.rsi < 35
          /\ candle'.ema20 # NaN /\ candle'.ema50 # NaN
          /\ candle'.ema20 > candle'.ema50
          /\ candle'.hist # NaN /\ candle'.hist > 0
          /\ trades'[Len(trades')].idx = i
          /\ trades'[Len(trades')].price = candle'.close
      ]_vars

C4_Witness ==
    /\ pc = "loop"
    /\ position.open
    /\ position.entry_idx = i - 1
    /\ LastTrade.action = "buy"
    /\ Len(trades) = 3

\* C8: the cash balance of run is never negative, whatever initial_balance
\* >= 0, position_size_pct and series it is given
C8_BalanceNeverNegative == balance >= 0 /\ final_balance >= 0

\* C9: every close credits the cash by sell_value - exit fee, the amount the
\* pnl of the trade is computed from, so that after run
\* final_balance - initial_balance is the sum of the pnl of the trades
C9_BalanceMatchesPnl ==
    pc = "done" => final_balance - initial_balance = SumPnl(trades)

\* C10: a position open after the last candle is closed by exactly one sell
\* "end_of_data" at the close of the final candle; the result holds as many
\* sells as buys
C10_EndOfDataClose ==
    pc = "done" =>
        /\ Count(trades, "sell") = Count(trades, "buy")
        /\ Cardinality({k \in 1..Len(trades) : trades[k].reason = "end_of_data"})
              = (IF position.open THEN 1 ELSE 0)
        /\ position.open =>
              /\ LastTrade.action = "sell"
              /\ LastTrade.reason = "end_of_data"
              /\ LastTrade.price = last_close
              /\ LastTrade.idx = n - 1

C10_Witness ==
    /\ pc = "done"
    /\ position.open
    /\ Len(trades) = 4
    /\ LastTrade.reason = "end_of_data"
    /\ LastTrade.price = candle.close

\* C11: a position opened and closed at the same price has pnl < 0: the two
\* fees are lost
C11_RoundTripLoses ==
    \A k \in 2..Len(trades) :
        (/\ trades[k].action = "sell"
         /\ trades[k - 1].action = "buy"
         /\ trades[k].price = trades[k - 1].price
         /\ trades[k].price > 0) => trades[k].pnl < 0

\* a position bought at 100 and sold at 100, in the loop and after it
C11_Witness ==
    /\ Len(trades) = 4
    /\ trades[2].price = trades[1].price
    /\ trades[2].reason = "rsi_overbought"
    /\ trades[2].pnl < 0
    /\ trades[4].price = trades[3].price
    /\ trades[4].reason = "end_of_data"
    /\ trades[4].pnl < 0

\* C12: after a run on a series of N >= 200 candles equity_curve holds N
\* points, one per candle of the series, the warm-up candles included
C12_OnePointPerCandle ==
    (pc = "done" /\ n >= 200) => Len(equity_curve) = n

\* C13: the point recorded at a candle is the cash balance plus quantity *
\* close of the position open at that candle, also at a candle whose RSI or
\* ATR is undefined
C13_EquityIsMarkToMarket ==
    [][ LoopStep =>
          equity_curve' = Append(equity_curve,
              balance + (IF position.open
                         THEN (position.qty * candle'.close) \div 1000
                         ELSE 0))
      ]_vars

\* C14: a candle with an undefined indicator among those its decision reads
\* (RSI and ATR at every candle; EMA20, EMA50 and the MACD histogram when no
\* position is open) is a hold: no trade is recorded, nothing else changes
\* and the loop goes on with the next candle
C14_UndefinedIsHold ==
    [][ (/\ LoopStep
         /\ \/ candle'.rsi = NaN
            \/ candle'.atr = NaN
            \/ (/\ ~position.open
                /\ \/ candle'.ema20 = NaN
                   \/ candle'.ema50 = NaN
                   \/ candle'.hist = NaN)) =>
          /\ trades' = trades
          /\ position' = position
          /\ balance' = balance
      ]_vars

\* no position, RSI 30 and EMA20 101 with EMA50 undefined: no buy
C14_Witness ==
    /\ pc = "loop"
    /\ i = 201
    /\ initial_balance = 100000
    /\ candle.rsi = 30
    /\ candle.ema20 = 101
    /\ candle.ema50 = NaN
    /\ candle.hist = 1
    /\ candle.atr = 1
    /\ trades = <<>>
    /\ equity_curve = <<100000>>

\* C20: max_drawdown_pct of the equity curve of a run is computed, lies in
\* 0..100, and is 0 for the empty curve and for a curve that never decreases
C20_DrawdownInRange ==
    pc = "done" =>
        LET r == max_drawdown_pct(equity_curve)
        IN  /\ ~r.raised
            /\ r.value >= 0
            /\ r.value <= 100
            /\ (\A k \in 2..Len(equity_curve) :
                    equity_curve[k] >= equity_curve[k - 1]) => r.value = 0

C22_BadCloseIsRejected ==
    [][ (LoopStep /\ candle'.close <= 0) =>
          (balance' = balance /\ position' = position /\ trades' = trades)
      ]_vars

\* C24: with the entry signal on a candle and
\* min(balance * position_size_pct / 100, balance - 1) < 1, nothing is
\* opened: no position, no trade, the balance unchanged
C24_SmallAmountIsNoOp ==
    [][ (/\ LoopStep
         /\ ~position.open
         /\ candle'.rsi # NaN /\ candle'.atr # NaN
         /\ candle'.rsi < 35 /\ candle'.ema20 > candle'.ema50 /\ candle'.hist > 0
         /\ \/ balance * position_size_pct < 100 * 1000
            \/ balance - 1000 < 1000) =>
          (balance' = balance /\ position' = position /\ trades' = trades)
      ]_vars

\* the entry signal at candle 200 with 2 USDT and 5 percent: 0.1 USDT
C24_Witness ==
    /\ pc = "loop"
    /\ i = 201
    /\ initial_balance = 2000
    /\ position_size_pct = 5
    /\ candle.rsi = 30 /\ candle.atr = 1
    /\ candle.ema20 = 101 /\ candle.hist = 1
    /\ trades = <<>>
    /\ ~position.open
    /\ balance = 2000

\* C25: on every candle of the loop with a position open and the close at
\* least stop_loss_pct percent below the entry price, the position is closed
\* on that candle with reason "stop_loss", whatever the RSI and the ATR of
\* the candle
C25_StopLossAlwaysCloses ==
    [][ (/\ LoopStep
         /\ position.open
         /\ position.entry_price > 0
         /\ candle'.close * 100 <= position.entry_price * (100 - stop_loss_pct)) =>
          /\ ~position'.open
          /\ Len(trades') = Len(trades) + 1
          /\ trades'[Len(trades')].action = "sell"
          /\ trades'[Len(trades')].reason = "stop_loss"
          /\ trades'[Len(trades')].idx = i
      ]_vars

\* an exit condition holds on the candle of the step
ExitHolds ==
    /\ position.open
    /\ \/ candle'.close * 100 <= position.entry_price * (100 - stop_loss_pct)
       \/ candle'.close * 100 >= position.entry_price * (100 + take_profit_pct)
       \/ (candle'.rsi # NaN /\ candle'.rsi > 65)

\* the entry condition holds on the candle of the step
EntryHolds ==
    /\ ~position.open
    /\ candle'.rsi # NaN /\ candle'.rsi < 35
    /\ candle'.ema20 > candle'.ema50
    /\ candle'.hist > 0

\* C26: a candle of the loop on which neither an exit nor the entry
\* condition holds leaves balance, position and trade log unchanged and
\* appends one equity point; a position stays as it was opened until it is
\* closed
C26_FrameOfHold ==
    [][ /\ (LoopStep /\ ~ExitHolds /\ ~EntryHolds) =>
              /\ balance' = balance
              /\ position' = position
              /\ trades' = trades
              /\ Len(equity_curve') = Len(equity_curve) + 1
        /\ (position.open /\ position'.open) => position' = position
      ]_vars

\* a position bought at candle 200 and held over a candle with RSI 50 at
\* the entry price
C26_Witness ==
    /\ pc = "loop"
    /\ i = 202
    /\ take_profit_pct = 3
    /\ position.open
    /\ position.entry_idx = 200
    /\ candle.close = position.entry_price
    /\ candle.rsi = 50
    /\ candle.atr = 1
    /\ Len(trades) = 1
    /\ Len(equity_curve) = 2

-----------------------------------------------------------------------------
(* Properties of the live agent *)

\* the step is a call of execute_trade for a recommendation of action a
ExecuteTradeStep(a) == last'.op = "execute_trade" /\ last'.action = a

\* C5: with the realized P&L of the day below -MAX_DAILY_LOSS, execute_trade
\* for a sell of coins the portfolio holds (every other test of execute_trade
\* passing) still places the Sell order
C5_SellExecutedWhenTripped ==
    [][ (/\ get_daily_pnl(history) < -20000
         /\ ExecuteTradeStep("sell")
         /\ last'.feasible) =>
          /\ Len(orders') = Len(orders) + 1
          /\ orders'[Len(orders')].side = "Sell"
      ]_vars

\* C6: with the realized P&L of the day below -MAX_DAILY_LOSS no Buy order is
\* placed: execute_trade for a buy returns False, places no order and records
\* no row, and run ends its iteration before any call of execute_trade
C6_NoBuyWhenTripped ==
    [][ get_daily_pnl(history) < -20000 =>
          /\ \A k \in (Len(orders) + 1)..Len(orders') : orders'[k].side # "Buy"
          /\ ExecuteTradeStep("buy") =>
                (~last'.ret /\ orders' = orders /\ history' = history)
          /\ apc = "idle" => (apc' = "idle" /\ pending' = <<>>)
      ]_vars

\* a buy that passes every other test was rejected with the limit exceeded
C6_Witness ==
    /\ get_daily_pnl(history) < -20000
    /\ last.op = "execute_trade"
    /\ last.action = "buy"
    /\ last.feasible
    /\ ~last.ret

\* C7: is_trading_allowed returns (False, reason) exactly when the realized
\* P&L of the day is strictly below -max_daily_loss, and (True, "") otherwise
C7_AllowedUnlessBelowLimit ==
    last.op = "is_trading_allowed" =>
        /\ ~last.ret <=> get_daily_pnl(history) < -20000
        /\ last.ret <=> last.reason = ""

\* the daily P&L is exactly -max_daily_loss and trading is allowed
C7_Witness ==
    /\ last.op = "is_trading_allowed"
    /\ get_daily_pnl(history) = -20000
    /\ last.ret
    /\ last.reason = ""

-----------------------------------------------------------------------------
(* Properties of RiskManager *)

\* C16: filter_by_confidence returns True for every hold and for every other
\* recommendation whose confidence (0 when it has none) is at least
\* MIN_CONFIDENCE, and False for the others
C16_FilterByConfidence ==
    last.op = "filter_by_confidence" =>
        LET rec == last.rec
            confidence == IF "confidence" \in DOMAIN rec THEN rec.confidence ELSE 0
        IN  last.ret <=> (rec.action = "hold" \/ confidence >= 60)

\* a buy with a confidence of exactly MIN_CONFIDENCE passes
C16_Witness ==
    /\ last.op = "filter_by_confidence"
    /\ last.rec.action = "buy"
    /\ "confidence" \in DOMAIN last.rec
    /\ last.rec.confidence = 60
    /\ last.ret

\* C17: execute_trade places no order for a buy or sell recommendation whose
\* confidence is below MIN_CONFIDENCE
C17_LowConfidenceIsHold ==
    [][ (/\ ExecuteTradeStep("buy") \/ ExecuteTradeStep("sell")
         /\ last'.confidence < 60) => orders' = orders
      ]_vars

\* C18: calculate_position_size returns
\* clamp(total_equity * position_size_pct / 100, 1, MAX_TRADE_AMOUNT)
C18_PositionSizeIsClamp ==
    last.op = "calculate_position_size" =>
        LET size == (last.equity * 5) \div 100
        IN  /\ last.ret >= 1000
            /\ last.ret <= 10000
            /\ last.ret = (IF size < 1000 THEN 1000
                           ELSE IF size > 10000 THEN 10000 ELSE size)

\* the rows of history that are successful buys of symbol, among the 50
\* latest rows of symbol
EntryRows(symbol) ==
    LET of_symbol == {k \in 1..Len(history) : history[k].symbol = symbol}
    IN  {k \in of_symbol :
            /\ Cardinality({j \in of_symbol : j >= k}) <= 50
            /\ history[k].action = "buy"
            /\ history[k].success}

\* what a check of kind reason has to answer at last.symbol and last.price
CheckAnswers(reason) ==
    LET rows == EntryRows(last.symbol)
    IN  IF rows = {} \/ ~(balances["BTC"] > 1)
        THEN last.ret.action = ""
        ELSE LET latest == CHOOSE k \in rows : \A j \in rows : j <= k
                 entry == history[latest].price
                 reached == IF reason = "stop_loss"
                            THEN (last.price - entry) * 100 <= (0 - 5) * entry
                            ELSE (last.price - entry) * 100 >= 3 * entry
             IN  IF reached
                 THEN /\ last.ret.action = "sell"
                      /\ last.ret.reason = reason
                      /\ last.ret.entry_price = entry
                 ELSE last.ret.action = ""

-----------------------------------------------------------------------------
(* Properties of TradingAgent.execute_trade *)

\* the step is a call of execute_trade of which last' holds the arguments
SeenStep == last'.op = "execute_trade" /\ "rec" \in DOMAIN last'

\* the amount of the call of last', clamped to max_trade_amount
SeenAmount ==
    IF last'.rec.quantity_usdt > 10000 THEN 10000 ELSE last'.rec.quantity_usdt

\* C23: a buy with usdt_balance < quantity_usdt + 1, and a sell with no
\* position above the dust threshold or with fewer coins than
\* quantity_usdt / current_price, returns False, places no order and
\* records no trade
C23_InsufficientIsSkipped ==
    [][ (/\ SeenStep
         /\ \/ /\ last'.rec.action = "buy"
               /\ balances["USDT"] < SeenAmount + 1000
            \/ /\ last'.rec.action = "sell"
               /\ \/ ~(balances["BTC"] > 1)
                  \/ balances["BTC"] * last'.price < SeenAmount) =>
          /\ ~last'.ret
          /\ orders' = orders
          /\ history' = history
      ]_vars

\* a sell of 10 USDT at 20, 0.5 coin, with 0.4 coin held
C23_Witness ==
    /\ last.op = "execute_trade"
    /\ "rec" \in DOMAIN last
    /\ last.rec.action = "sell"
    /\ last.rec.quantity_usdt = 15000
    /\ last.price = 20
    /\ balances["BTC"] = 400
    /\ ~last.ret
    /\ orders = <<>>
    /\ history = <<>>

\* C27: an order is placed only for an amount > 0, and it is for
\* min(amount, max_trade_amount) / current_price coins, the amount being
\* clamped before the balance is tested; a buy or sell with a missing, zero
\* or negative amount returns False with no order and no record
C27_OrderAmountInRange ==
    [][ SeenStep =>
          /\ orders' # orders =>
                /\ last'.rec.quantity_usdt > 0
                /\ SeenAmount <= 10000
                /\ orders' = Append(orders, orders'[Len(orders')])
                /\ orders'[Len(orders')].qty * last'.price = SeenAmount
                /\ history'[Len(history')].quantity_usdt = SeenAmount
          /\ (last'.rec.action # "hold" /\ last'.rec.quantity_usdt <= 0) =>
                /\ ~last'.ret
                /\ orders' = orders
                /\ history' = history
      ]_vars

\* a buy of 15 USDT with 11 USDT held: an order for 10 USDT at 100
C27_Witness ==
    /\ last.op = "execute_trade"
    /\ "rec" \in DOMAIN last
    /\ last.rec.action = "buy"
    /\ last.rec.quantity_usdt = 15000
    /\ last.price = 100
    /\ balances["USDT"] = 11000
    /\ last.ret
    /\ orders = <<[symbol |-> "BTCUSDT", side |-> "Buy", qty |-> 100]>>

Successful(h) == SelectSeq(h, LAMBDA r : r.success)

\* C30: the rows recorded with success = 0 contribute nothing to the
\* realized P&L get_daily_pnl returns
C30_RejectedNotCounted ==
    get_daily_pnl(history) = get_daily_pnl(Successful(history))

-----------------------------------------------------------------------------
(* Properties of BybitClient.get_klines *)

\* C29: get_klines returns, after at most max_requests requests, a list in
\* which no two klines have the same timestamp
C29_KlinesTerminates ==
    /\ [](/\ request_count <= max_requests
          /\ \A j, k \in 1..Len(all_klines) :
                all_klines[j] = all_klines[k] => j = k)
    /\ <>(kpc = "done")

\* three requests, the third a page that repeats a kline of the first
C29_Witness ==
    /\ kpc = "done"
    /\ max_requests = 3
    /\ request_count = 3
    /\ all_klines = <<3, 2, 1>>

=============================================================================
